---- MODULE Spec2Model ----
(***************************************************************************)
(* Model of CodeConverter (src/app.py): the four executors compile_cpp,    *)
(* run_python, run_java and run_javascript, run by concurrent callers      *)
(* against one temporary directory, and the classifier detect_language.    *)
(*                                                                         *)
(* Spec        the executors: every filesystem call and every subprocess   *)
(*             call of an executor is one step, so that two calls in       *)
(*             flight interleave at the granularity of system calls.       *)
(* DetectSpec  detect_language applied to bounded code strings.            *)
(* ProcessSpec process_code: detection, translation through call_llm and   *)
(*             the dispatch to an executor, which then runs as in Spec.    *)
(***************************************************************************)
EXTENDS Integers, Sequences, FiniteSets, TLC

(***************************************************************************)
(* Bounds of the model.                                                    *)
(***************************************************************************)
NumCalls == 2
NumClassNames == 1

(***************************************************************************)
(* Program constants.                                                      *)
(***************************************************************************)
CppCompileTimeout == 15
CppRunTimeout == 10
PythonRunTimeout == 10
JavaCompileTimeout == 10
JavaRunTimeout == 10
JsRunTimeout == 10
NoTimeout == 0

Calls == 1..NumCalls
ClassNames == 1..NumClassNames
NoClass == 0
NoCall == 0

Langs == {"C++", "Python", "Java", "JavaScript"}

(***************************************************************************)
(* Paths of the temporary directory.  NamedTemporaryFile gives every call  *)
(* a name no other file has: the temporary file of call c is               *)
(* <<"tmp", c, ext>>.  The file run_java renames to is                     *)
(* <<"cls", class_name, ".java">> and javac's output is                    *)
(* <<"cls", class_name, ".class">>.                                        *)
(***************************************************************************)
NoPath == <<"none", 0, "">>

Suffix(l) ==
    CASE l = "C++" -> ".cpp"
      [] l = "Python" -> ".py"
      [] l = "Java" -> ".java"
      [] l = "JavaScript" -> ".js"

TmpPath(c, ext) == <<"tmp", c, ext>>

Paths ==
    {TmpPath(c, e) : c \in Calls, e \in {".cpp", "", ".py", ".java", ".js"}}
      \cup {<<"cls", k, e>> : k \in ClassNames, e \in {".java", ".class"}}

\* exe_file = cpp_file.replace('.cpp', '') (the posix branch)
ExeFileOf(p) == <<p[1], p[2], "">>

\* os.path.join(java_dir, f"{class_name}.java")
ProperJavaFileOf(k) == <<"cls", k, ".java">>

\* os.path.join(java_dir, f"{class_name}.class")
ClassFileOf(k) == <<"cls", k, ".class">>

VARIABLES
    pc,             \* position of each call in its executor
    lang,           \* which executor the call runs
    class_name,     \* group 1 of the public-class match on the code, or NoClass
    src_file,       \* cpp_file / py_file / java_file / js_file
    run_file,       \* the file handed to the toolchain: cpp_file, proper_java_file, ...
    bin_file,       \* exe_file, or the .class file of class_name
    child,          \* the subprocess the call is blocked on
    compile_result, \* returncode and stderr of the compile step
    run_result,     \* returncode and stderr of the run step
    result,         \* the (bool, str) the executor returned
    fs,             \* the temporary directory: path -> call that wrote it, or NoCall
    probed,         \* what the toolchain probe of this call reported
    spawned,        \* the subprocesses this call started, in order
    touched,        \* the paths this call wrote, renamed to, compiled, ran or deleted
    timedOut,       \* the step whose TimeoutExpired this call caught
    code,           \* the code string given to detect_language (source_code)
    detected,       \* what detect_language returned (detected_lang)
    request         \* ProcessSpec: position, arguments and locals of process_code

execVars == <<pc, lang, class_name, src_file, run_file, bin_file, child,
              compile_result, run_result, result, fs, probed, spawned, touched,
              timedOut>>
detectVars == <<code, detected>>
procVars == <<request>>
vars == <<execVars, detectVars, procVars>>

NoChild == [kind |-> "none", timeout |-> NoTimeout]
NoResult == [returncode |-> -1, stderr |-> ""]
NoOutcome == [succeeded |-> FALSE, kind |-> "none", marker |-> "none",
              stderr |-> "", stderr_block |-> FALSE]

StderrVals == {"", "E"}
ReturnCodes == {0, 1}


(***************************************************************************)
(* Tables of the executors.                                                *)
(***************************************************************************)
\* compile_cpp, run_java and run_javascript probe their toolchain first;
\* run_python creates its file at once.
HasProbe(l) == l \in {"C++", "Java", "JavaScript"}

\* compile_cpp and run_java compile, then run.
HasCompile(l) == l \in {"C++", "Java"}

CompileTimeout(l) == IF l = "C++" THEN CppCompileTimeout ELSE JavaCompileTimeout

RunTimeout(l) ==
    CASE l = "C++" -> CppRunTimeout
      [] l = "Python" -> PythonRunTimeout
      [] l = "Java" -> JavaRunTimeout
      [] l = "JavaScript" -> JsRunTimeout

\* subprocess.run([tool, '--version'], capture_output=True, check=True)
ProbeTimeout(l) == NoTimeout

\* a run_java that does not check class_match
HasPublicClassUnchecked(k) == TRUE

\* class_match = re.search(r'public\s+class\s+(\w+)', java_code)
HasPublicClass(k) == k # NoClass

\* a compile step whose returncode is not looked at
CompileSucceededUnchecked(r) == TRUE

\* if compile_result.returncode == 0:
CompileSucceeded(r) == r.returncode = 0

\* the bool of the returned tuple once the run step has completed:
\* "return True, output" in compile_cpp and run_java,
\* "return run_result.returncode == 0, output" in run_python and run_javascript.
RunSucceeded(l, r) == IF HasCompile(l) THEN TRUE ELSE r.returncode = 0

(***************************************************************************)
(* The tuples the executors return.                                        *)
(***************************************************************************)
ToolchainMissing ==
    [succeeded |-> FALSE, kind |-> "not_found", marker |-> "fail",
     stderr |-> "", stderr_block |-> FALSE]

NoPublicClass ==
    [succeeded |-> FALSE, kind |-> "no_public_class", marker |-> "fail",
     stderr |-> "", stderr_block |-> FALSE]

CompileFailed(r) ==
    [succeeded |-> FALSE, kind |-> "compile_failed", marker |-> "fail",
     stderr |-> r.stderr, stderr_block |-> FALSE]

TimedOutOutcome ==
    [succeeded |-> FALSE, kind |-> "timed_out", marker |-> "timeout",
     stderr |-> "", stderr_block |-> FALSE]

ErrorOutcome ==
    [succeeded |-> FALSE, kind |-> "error", marker |-> "fail",
     stderr |-> "", stderr_block |-> FALSE]

\* output = "<check mark> ... successful!\n\n--- Output ---\n" + stdout,
\* plus the stderr block if run_result.stderr
Report(l, r) ==
    [succeeded |-> RunSucceeded(l, r), kind |-> "report", marker |-> "ok",
     stderr |-> r.stderr, stderr_block |-> (r.stderr # "")]

\* what the executor returns after its cleanup
Returned(l, cr, rr) ==
    IF HasCompile(l) /\ ~CompileSucceeded(cr) THEN CompileFailed(cr) ELSE Report(l, rr)

\* process_code is not running
IdleRequest ==
    [p_pc |-> "none", target_lang |-> "none", compile_run |-> FALSE,
     llm_kind |-> "none", converted_code |-> <<>>, conversion_info |-> "none",
     execution_output |-> NoOutcome]

NoRequest == request = IdleRequest

\* position of process_code
p_pc == request.p_pc

\* the target_lang argument
target_lang == request.target_lang

\* the compile_run flag
compile_run == request.compile_run

\* how the call_llm of this request ended
llm_kind == request.llm_kind

\* converted_code
converted_code == request.converted_code

\* which conversion_info text was built
conversion_info == request.conversion_info

\* execution_output
execution_output == request.execution_output

(***************************************************************************)
(* Initial state: no call has started, the temporary directory is empty.   *)
(***************************************************************************)
Init ==
    /\ pc = [c \in Calls |-> "idle"]
    /\ lang = [c \in Calls |-> "none"]
    /\ class_name = [c \in Calls |-> NoClass]
    /\ src_file = [c \in Calls |-> NoPath]
    /\ run_file = [c \in Calls |-> NoPath]
    /\ bin_file = [c \in Calls |-> NoPath]
    /\ child = [c \in Calls |-> NoChild]
    /\ compile_result = [c \in Calls |-> NoResult]
    /\ run_result = [c \in Calls |-> NoResult]
    /\ result = [c \in Calls |-> NoOutcome]
    /\ fs = [p \in Paths |-> NoCall]
    /\ probed = [c \in Calls |-> "none"]
    /\ spawned = [c \in Calls |-> <<>>]
    /\ touched = [c \in Calls |-> {}]
    /\ timedOut = [c \in Calls |-> "none"]
    /\ code = <<>>
    /\ detected = "none"
    /\ NoRequest

\* the executor returns o
Return(c, o) ==
    /\ pc' = [pc EXCEPT ![c] = "done"]
    /\ result' = [result EXCEPT ![c] = o]

(***************************************************************************)
(* process_code dispatches on target_lang to one executor.  k stands for   *)
(* the code: the class its public-class declaration names, or NoClass.     *)
(***************************************************************************)
Execute(c, l, k) ==
    /\ pc[c] = "idle"
    /\ l = "Java" \/ k = NoClass
    /\ lang' = [lang EXCEPT ![c] = l]
    /\ class_name' = [class_name EXCEPT ![c] = k]
    /\ pc' = [pc EXCEPT ![c] = IF HasProbe(l) THEN "probe" ELSE "create"]
    /\ UNCHANGED <<src_file, run_file, bin_file, child, compile_result, run_result,
                   result, fs, probed, spawned, touched, timedOut, detectVars, procVars>>

(***************************************************************************)
(* The toolchain probe.  FileNotFoundError: the binary is missing and no   *)
(* process starts; OSError: any other failure to start it, which only the  *)
(* outer "except Exception" catches.                                       *)
(***************************************************************************)
Probe(c, o) ==
    /\ pc[c] = "probe"
    /\ CASE o = "started" ->
              /\ child' = [child EXCEPT ![c] =
                              [kind |-> "probe", timeout |-> ProbeTimeout(lang[c])]]
              /\ spawned' = [spawned EXCEPT ![c] = Append(@, "probe")]
              /\ pc' = [pc EXCEPT ![c] = "probe_wait"]
              /\ UNCHANGED <<result, probed>>
         [] o = "FileNotFoundError" ->
              /\ probed' = [probed EXCEPT ![c] = "unavailable"]
              /\ Return(c, ToolchainMissing)
              /\ UNCHANGED <<child, spawned>>
         [] o = "OSError" ->
              /\ Return(c, ErrorOutcome)
              /\ UNCHANGED <<child, spawned, probed>>
    /\ UNCHANGED <<lang, class_name, src_file, run_file, bin_file, compile_result,
                   run_result, fs, touched, timedOut, detectVars, procVars>>

\* the probe's process exits with rc; check=True raises CalledProcessError
\* unless rc = 0.  run_java then looks for the public class.
ProbeExit(c, rc) ==
    /\ pc[c] = "probe_wait"
    /\ child' = [child EXCEPT ![c] = NoChild]
    /\ IF rc # 0
         THEN /\ probed' = [probed EXCEPT ![c] = "unavailable"]
              /\ Return(c, ToolchainMissing)
         ELSE /\ probed' = [probed EXCEPT ![c] = "available"]
              /\ IF lang[c] = "Java" /\ ~HasPublicClass(class_name[c])
                   THEN Return(c, NoPublicClass)
                   ELSE /\ pc' = [pc EXCEPT ![c] = "create"]
                        /\ UNCHANGED result
    /\ UNCHANGED <<lang, class_name, src_file, run_file, bin_file, compile_result,
                   run_result, fs, spawned, touched, timedOut, detectVars, procVars>>

(***************************************************************************)
(* tempfile.NamedTemporaryFile(mode='w', suffix=..., delete=False): a file *)
(* of a fresh name, with the code written to it.                           *)
(***************************************************************************)
CreateTemp(c) ==
    LET p == TmpPath(c, Suffix(lang[c])) IN
    /\ pc[c] = "create"
    /\ fs[p] = NoCall
    /\ fs' = [fs EXCEPT ![p] = c]
    /\ src_file' = [src_file EXCEPT ![c] = p]
    /\ touched' = [touched EXCEPT ![c] = @ \cup {p}]
    /\ run_file' = [run_file EXCEPT ![c] = IF lang[c] = "Java" THEN NoPath ELSE p]
    /\ bin_file' = [bin_file EXCEPT ![c] = IF lang[c] = "C++" THEN ExeFileOf(p) ELSE NoPath]
    /\ pc' = [pc EXCEPT ![c] =
                 CASE lang[c] = "Java" -> "rename"
                   [] lang[c] = "C++" -> "compile"
                   [] OTHER -> "run"]
    /\ UNCHANGED <<lang, class_name, child, compile_result, run_result, result,
                   probed, spawned, timedOut, detectVars, procVars>>

\* the temporary file cannot be created (OSError): the outer handler returns
CreateTempFails(c) ==
    /\ pc[c] = "create"
    /\ Return(c, ErrorOutcome)
    /\ UNCHANGED <<lang, class_name, src_file, run_file, bin_file, child,
                   compile_result, run_result, fs, probed, spawned, touched,
                   timedOut, detectVars, procVars>>

(***************************************************************************)
(* os.rename(java_file, proper_java_file): replaces an existing            *)
(* destination (posix); raises if the source is gone.                      *)
(***************************************************************************)
Rename(c) ==
    LET proper_java_file == ProperJavaFileOf(class_name[c]) IN
    /\ pc[c] = "rename"
    /\ IF fs[src_file[c]] = NoCall
         THEN /\ Return(c, ErrorOutcome)
              /\ UNCHANGED <<fs, run_file, bin_file, touched>>
         ELSE /\ fs' = [fs EXCEPT ![src_file[c]] = NoCall, ![proper_java_file] = c]
              /\ run_file' = [run_file EXCEPT ![c] = proper_java_file]
              /\ bin_file' = [bin_file EXCEPT ![c] = ClassFileOf(class_name[c])]
              /\ touched' = [touched EXCEPT ![c] = @ \cup {proper_java_file}]
              /\ pc' = [pc EXCEPT ![c] = "compile"]
              /\ UNCHANGED result
    /\ UNCHANGED <<lang, class_name, src_file, child, compile_result, run_result,
                   probed, spawned, timedOut, detectVars, procVars>>


(***************************************************************************)
(* The compile step: g++ -std=c++17 -o exe_file cpp_file, or               *)
(* javac proper_java_file, under subprocess.run(..., timeout=...).         *)
(* OSError: the compiler cannot be started.                                *)
(***************************************************************************)
Compile(c, o) ==
    /\ pc[c] = "compile"
    /\ IF o = "started"
         THEN /\ child' = [child EXCEPT ![c] =
                              [kind |-> "compile", timeout |-> CompileTimeout(lang[c])]]
              /\ spawned' = [spawned EXCEPT ![c] = Append(@, "compile")]
              /\ pc' = [pc EXCEPT ![c] = "compile_wait"]
              /\ UNCHANGED result
         ELSE /\ Return(c, ErrorOutcome)
              /\ UNCHANGED <<child, spawned>>
    /\ UNCHANGED <<lang, class_name, src_file, run_file, bin_file, compile_result,
                   run_result, fs, probed, touched, timedOut, detectVars, procVars>>

\* the compiler exits with rc and stderr e; a compiler that exits 0 has read
\* its source file and written the binary (what it wrote to stderr then is
\* never read and is left out)
CompileExit(c, rc, e) ==
    LET r == [returncode |-> rc, stderr |-> e] IN
    /\ pc[c] = "compile_wait"
    /\ rc = 0 => (fs[run_file[c]] # NoCall /\ e = "")
    /\ child' = [child EXCEPT ![c] = NoChild]
    /\ compile_result' = [compile_result EXCEPT ![c] = r]
    /\ IF rc = 0
         THEN /\ fs' = [fs EXCEPT ![bin_file[c]] = c]
              /\ touched' = [touched EXCEPT ![c] = @ \cup {bin_file[c]}]
         ELSE UNCHANGED <<fs, touched>>
    /\ pc' = [pc EXCEPT ![c] = IF CompileSucceeded(r) THEN "run" ELSE "unlink_src"]
    /\ UNCHANGED <<lang, class_name, src_file, run_file, bin_file, run_result, result,
                   probed, spawned, timedOut, detectVars, procVars>>

(***************************************************************************)
(* The run step: [exe_file], ['python', py_file],                          *)
(* ['java', '-cp', java_dir, class_name] or ['node', js_file], under       *)
(* subprocess.run(..., timeout=10).  Starting exe_file fails when the file *)
(* is not there.                                                           *)
(***************************************************************************)
Run(c, o) ==
    LET target == IF HasCompile(lang[c]) THEN bin_file[c] ELSE run_file[c] IN
    /\ pc[c] = "run"
    /\ (lang[c] = "C++" /\ fs[bin_file[c]] = NoCall) => o # "started"
    /\ IF o = "started"
         THEN /\ child' = [child EXCEPT ![c] =
                              [kind |-> "run", timeout |-> RunTimeout(lang[c])]]
              /\ spawned' = [spawned EXCEPT ![c] = Append(@, "run")]
              /\ touched' = [touched EXCEPT ![c] = @ \cup {target}]
              /\ pc' = [pc EXCEPT ![c] = "run_wait"]
              /\ UNCHANGED result
         ELSE /\ Return(c, ErrorOutcome)
              /\ UNCHANGED <<child, spawned, touched>>
    /\ UNCHANGED <<lang, class_name, src_file, run_file, bin_file, compile_result,
                   run_result, fs, probed, timedOut, detectVars, procVars>>

\* the program exits with rc and stderr e
RunExit(c, rc, e) ==
    /\ pc[c] = "run_wait"
    /\ child' = [child EXCEPT ![c] = NoChild]
    /\ run_result' = [run_result EXCEPT ![c] = [returncode |-> rc, stderr |-> e]]
    /\ pc' = [pc EXCEPT ![c] = "unlink_src"]
    /\ UNCHANGED <<lang, class_name, src_file, run_file, bin_file, compile_result,
                   result, fs, probed, spawned, touched, timedOut, detectVars, procVars>>

(***************************************************************************)
(* A handler of TimeoutExpired that starts the timed-out step again.       *)
(***************************************************************************)
TimeoutRetry(c) ==
    /\ pc[c] \in {"probe_wait", "compile_wait", "run_wait"}
    /\ child[c].timeout > 0
    /\ timedOut' = [timedOut EXCEPT ![c] = child[c].kind]
    /\ child' = [child EXCEPT ![c] = NoChild]
    /\ pc' = [pc EXCEPT ![c] = IF pc[c] = "compile_wait" THEN "compile" ELSE "run"]
    /\ UNCHANGED <<lang, class_name, src_file, run_file, bin_file, compile_result,
                   run_result, result, fs, probed, spawned, touched, detectVars, procVars>>

(***************************************************************************)
(* subprocess.TimeoutExpired: subprocess.run kills the child and raises;   *)
(* the handler returns the timed-out tuple.                                *)
(***************************************************************************)
Timeout(c) ==
    /\ pc[c] \in {"probe_wait", "compile_wait", "run_wait"}
    /\ child[c].timeout > 0
    /\ timedOut' = [timedOut EXCEPT ![c] = child[c].kind]
    /\ child' = [child EXCEPT ![c] = NoChild]
    /\ Return(c, TimedOutOutcome)
    /\ UNCHANGED <<lang, class_name, src_file, run_file, bin_file, compile_result,
                   run_result, fs, probed, spawned, touched, detectVars, procVars>>

(***************************************************************************)
(* Cleanup: try: os.unlink(source); os.unlink(binary)  except: pass        *)
(* The second unlink belongs to the path where the compile step succeeded; *)
(* it is skipped when the first one raises.                                *)
(***************************************************************************)
UnlinkSrc(c) ==
    /\ pc[c] = "unlink_src"
    /\ touched' = [touched EXCEPT ![c] = @ \cup {run_file[c]}]
    /\ fs' = [fs EXCEPT ![run_file[c]] = NoCall]
    /\ IF /\ fs[run_file[c]] # NoCall
          /\ HasCompile(lang[c])
          /\ CompileSucceeded(compile_result[c])
         THEN /\ pc' = [pc EXCEPT ![c] = "unlink_bin"]
              /\ UNCHANGED result
         ELSE Return(c, Returned(lang[c], compile_result[c], run_result[c]))
    /\ UNCHANGED <<lang, class_name, src_file, run_file, bin_file, child,
                   compile_result, run_result, probed, spawned, timedOut, detectVars, procVars>>

UnlinkBin(c) ==
    /\ pc[c] = "unlink_bin"
    /\ touched' = [touched EXCEPT ![c] = @ \cup {bin_file[c]}]
    /\ fs' = [fs EXCEPT ![bin_file[c]] = NoCall]
    /\ Return(c, Returned(lang[c], compile_result[c], run_result[c]))
    /\ UNCHANGED <<lang, class_name, src_file, run_file, bin_file, child,
                   compile_result, run_result, probed, spawned, timedOut, detectVars, procVars>>

ProbeOutcomes == {"started", "FileNotFoundError", "OSError"}
SpawnOutcomes == {"started", "OSError"}

Next ==
    \E c \in Calls :
        \/ \E l \in Langs, k \in ClassNames \cup {NoClass} : Execute(c, l, k)
        \/ \E o \in ProbeOutcomes : Probe(c, o)
        \/ \E rc \in ReturnCodes : ProbeExit(c, rc)
        \/ CreateTemp(c)
        \/ CreateTempFails(c)
        \/ Rename(c)
        \/ \E o \in SpawnOutcomes : Compile(c, o)
        \/ \E rc \in ReturnCodes, e \in StderrVals : CompileExit(c, rc, e)
        \/ \E o \in SpawnOutcomes : Run(c, o)
        \/ \E rc \in ReturnCodes, e \in StderrVals : RunExit(c, rc, e)
        \/ Timeout(c)
        \/ UnlinkSrc(c)
        \/ UnlinkBin(c)

Spec == Init /\ [][Next]_vars


(***************************************************************************)
(* detect_language.  A code string is a sequence of characters.            *)
(***************************************************************************)
\* \s of the re module, as far as the inputs go: space, tab, newline
IsSpace(ch) == ch \in {" ", "\t", "\n"}

\* \w of the re module: letters, digits and the underscore
WordChars ==
    { "a", "b", "c", "d", "e", "f", "g", "h", "i", "j", "k", "l", "m",
      "n", "o", "p", "q", "r", "s", "t", "u", "v", "w", "x", "y", "z",
      "A", "B", "C", "D", "E", "F", "G", "H", "I", "J", "K", "L", "M",
      "N", "O", "P", "Q", "R", "S", "T", "U", "V", "W", "X", "Y", "Z",
      "0", "1", "2", "3", "4", "5", "6", "7", "8", "9", "_" }

IsWord(ch) == ch \in WordChars

\* python_indicators
python_indicators ==
    { <<"d", "e", "f", " ">>,
      <<"i", "m", "p", "o", "r", "t", " ">>,
      <<"f", "r", "o", "m", " ">>,
      <<"i", "f", " ", "_", "_", "n", "a", "m", "e", "_", "_">>,
      <<"p", "r", "i", "n", "t", "(">>,
      <<"e", "l", "i", "f", " ">>,
      <<"e", "x", "c", "e", "p", "t", ":">>,
      <<"w", "i", "t", "h", " ">>,
      <<"y", "i", "e", "l", "d", " ">>,
      <<"l", "a", "m", "b", "d", "a", " ">>,
      <<"T", "r", "u", "e">>,
      <<"F", "a", "l", "s", "e">>,
      <<"N", "o", "n", "e">> }

\* cpp_indicators
cpp_indicators ==
    { <<"#", "i", "n", "c", "l", "u", "d", "e">>,
      <<"u", "s", "i", "n", "g", " ", "n", "a", "m", "e", "s", "p", "a", "c", "e">>,
      <<"i", "n", "t", " ", "m", "a", "i", "n", "(">>,
      <<"s", "t", "d", ":", ":">>,
      <<"c", "o", "u", "t">>,
      <<"c", "i", "n">>,
      <<"e", "n", "d", "l">>,
      <<"c", "l", "a", "s", "s", " ">>,
      <<"p", "u", "b", "l", "i", "c", ":">>,
      <<"p", "r", "i", "v", "a", "t", "e", ":">>,
      <<"p", "r", "o", "t", "e", "c", "t", "e", "d", ":">>,
      <<"v", "e", "c", "t", "o", "r", "<">>,
      <<"s", "t", "r", "i", "n", "g", " ">>,
      <<"i", "n", "t", " ">>,
      <<"f", "l", "o", "a", "t", " ">>,
      <<"d", "o", "u", "b", "l", "e", " ">>,
      <<"v", "o", "i", "d", " ">>,
      <<"r", "e", "t", "u", "r", "n", " ", "0", ";">> }

\* java_indicators
java_indicators ==
    { <<"p", "u", "b", "l", "i", "c", " ", "c", "l", "a", "s", "s">>,
      <<"p", "u", "b", "l", "i", "c", " ", "s", "t", "a", "t", "i", "c", " ", "v", "o", "i", "d", " ", "m", "a", "i", "n">>,
      <<"S", "y", "s", "t", "e", "m", ".", "o", "u", "t", ".", "p", "r", "i", "n", "t", "l", "n">>,
      <<"p", "r", "i", "v", "a", "t", "e", " ">>,
      <<"p", "r", "o", "t", "e", "c", "t", "e", "d", " ">>,
      <<"e", "x", "t", "e", "n", "d", "s", " ">>,
      <<"i", "m", "p", "l", "e", "m", "e", "n", "t", "s", " ">>,
      <<"p", "a", "c", "k", "a", "g", "e", " ">>,
      <<"i", "m", "p", "o", "r", "t", " ", "j", "a", "v", "a", ".">>,
      <<"n", "e", "w", " ">>,
      <<"S", "t", "r", "i", "n", "g", "[", "]">> }

\* js_indicators
js_indicators ==
    { <<"f", "u", "n", "c", "t", "i", "o", "n", " ">>,
      <<"v", "a", "r", " ">>,
      <<"l", "e", "t", " ">>,
      <<"c", "o", "n", "s", "t", " ">>,
      <<"c", "o", "n", "s", "o", "l", "e", ".", "l", "o", "g">>,
      <<"d", "o", "c", "u", "m", "e", "n", "t", ".">>,
      <<"w", "i", "n", "d", "o", "w", ".">>,
      <<"=", ">">>,
      <<"r", "e", "q", "u", "i", "r", "e", "(">>,
      <<"m", "o", "d", "u", "l", "e", ".", "e", "x", "p", "o", "r", "t", "s">> }


\* w occurs in s at index i
At(s, i, w) ==
    /\ i >= 1
    /\ i + Len(w) - 1 <= Len(s)
    /\ \A k \in 1..Len(w) : s[i + k - 1] = w[k]

\* "indicator in code"
Contains(s, w) == \E i \in 1..(Len(s) - Len(w) + 1) : At(s, i, w)

\* str.strip(): leading and trailing whitespace removed
Strip(s) ==
    LET keep == {i \in 1..Len(s) : ~IsSpace(s[i])} IN
    IF keep = {} THEN <<>>
    ELSE LET lo == CHOOSE i \in keep : \A j \in keep : i <= j
             hi == CHOOSE i \in keep : \A j \in keep : j <= i
         IN SubSeq(s, lo, hi)

\* the index after the longest run of whitespace that starts at i
RECURSIVE SkipSpace(_, _)
SkipSpace(s, i) == IF i <= Len(s) /\ IsSpace(s[i]) THEN SkipSpace(s, i + 1) ELSE i

\* the index after the longest run of word characters that starts at i
RECURSIVE SkipWord(_, _)
SkipWord(s, i) == IF i <= Len(s) /\ IsWord(s[i]) THEN SkipWord(s, i + 1) ELSE i

\* ^ under re.MULTILINE: the start of the string or the index after a newline
LineStart(s, i) == i = 1 \/ (i - 1 <= Len(s) /\ s[i - 1] = "\n")

\* ^\s* ends at j: some line start is separated from j by whitespace only
AfterLineStart(s, j) ==
    \E i \in 1..j : LineStart(s, i) /\ \A k \in i..(j - 1) : IsSpace(s[k])

\* re.search(r'^\s*#include\s*<.*>', code, re.MULTILINE)
MatchInclude(s) ==
    LET kw == <<"#", "i", "n", "c", "l", "u", "d", "e">> IN
    \E j \in 1..Len(s) :
        /\ At(s, j, kw)
        /\ AfterLineStart(s, j)
        /\ LET lt == SkipSpace(s, j + Len(kw)) IN
           /\ lt <= Len(s)
           /\ s[lt] = "<"
           /\ \E gt \in (lt + 1)..Len(s) :
                 /\ s[gt] = ">"
                 /\ \A k \in (lt + 1)..(gt - 1) : s[k] # "\n"

\* \s+\w+\s*\( matches at i
SpaceNameParen(s, i) ==
    LET n == SkipSpace(s, i)
        p == SkipWord(s, n)
        q == SkipSpace(s, p)
    IN /\ n > i
       /\ p > n
       /\ q <= Len(s)
       /\ s[q] = "("

\* re.search(r'^\s*def\s+\w+\s*\(', code, re.MULTILINE)
MatchDef(s) ==
    LET kw == <<"d", "e", "f">> IN
    \E j \in 1..Len(s) :
        At(s, j, kw) /\ AfterLineStart(s, j) /\ SpaceNameParen(s, j + Len(kw))

\* re.search(r'^\s{4,}', code, re.MULTILINE)
MatchIndent(s) ==
    \E i \in 1..Len(s) : LineStart(s, i) /\ SkipSpace(s, i) >= i + 4

\* re.search(r'public\s+class\s+\w+', code)
MatchPublicClass(s) ==
    LET kw1 == <<"p", "u", "b", "l", "i", "c">>
        kw2 == <<"c", "l", "a", "s", "s">>
    IN \E j \in 1..Len(s) :
          /\ At(s, j, kw1)
          /\ LET c == SkipSpace(s, j + Len(kw1)) IN
             /\ c > j + Len(kw1)
             /\ At(s, c, kw2)
             /\ LET n == SkipSpace(s, c + Len(kw2)) IN
                /\ n > c + Len(kw2)
                /\ SkipWord(s, n) > n

\* re.search(r'function\s+\w+\s*\(', code)
MatchFunction(s) ==
    LET kw == <<"f", "u", "n", "c", "t", "i", "o", "n">> IN
    \E j \in 1..Len(s) : At(s, j, kw) /\ SpaceNameParen(s, j + Len(kw))

\* code.count('{') > 0 and code.count('}') > 0
HasBraces(s) == (\E i \in 1..Len(s) : s[i] = "{") /\ (\E i \in 1..Len(s) : s[i] = "}")

\* sum(1 for indicator in indicators if indicator in code)
Count(indicators, s) == Cardinality({w \in indicators : Contains(s, w)})

Bonus(cond, n) == IF cond THEN n ELSE 0

\* the dict scores, for the stripped code s
Scores(s) ==
    [l \in Langs |->
        CASE l = "Python" ->
                 Count(python_indicators, s) + Bonus(MatchDef(s), 3)
                     + Bonus(MatchIndent(s), 2)
          [] l = "C++" ->
                 Count(cpp_indicators, s) + Bonus(MatchInclude(s), 3)
                     + Bonus(HasBraces(s), 1)
          [] l = "Java" ->
                 Count(java_indicators, s) + Bonus(MatchPublicClass(s), 3)
                     + Bonus(HasBraces(s), 1)
          [] l = "JavaScript" ->
                 Count(js_indicators, s) + Bonus(MatchFunction(s), 2)
                     + Bonus(HasBraces(s), 1)]

\* the keys of scores in insertion order
ScoreKeys == <<"Python", "C++", "Java", "JavaScript">>

\* a max that keeps the last of several maximal keys
RECURSIVE MaxKeyLast(_, _, _)
MaxKeyLast(sc, i, best) ==
    IF i > Len(ScoreKeys) THEN best
    ELSE MaxKeyLast(sc, i + 1, IF sc[ScoreKeys[i]] >= sc[best] THEN ScoreKeys[i] ELSE best)

\* max(scores, key=scores.get): the keys are visited in insertion order and a
\* key replaces the best so far only if its score is greater
RECURSIVE MaxKey(_, _, _)
MaxKey(sc, i, best) ==
    IF i > Len(ScoreKeys) THEN best
    ELSE MaxKey(sc, i + 1, IF sc[ScoreKeys[i]] > sc[best] THEN ScoreKeys[i] ELSE best)

\* a threshold that lets a zero score through
IsPositiveOrZero(n) == n >= 0

\* if scores[max_lang] > 0
IsPositive(n) == n > 0

detect_language(raw) ==
    LET s == Strip(raw)
        scores == Scores(s)
        max_lang == MaxKey(scores, 2, ScoreKeys[1])
    IN IF IsPositive(scores[max_lang]) THEN max_lang ELSE "Unknown"

(***************************************************************************)
(* The code strings detect_language is applied to: up to MaxChunks pieces  *)
(* of text, joined.                                                        *)
(***************************************************************************)
MaxChunks == 3

Chunks ==
    { <<"x">>,
      <<"\n">>,
      <<" ", " ", " ", " ">>,
      <<"{">>,
      <<"}">>,
      <<"d", "e", "f", " ", "f", "(">>,
      <<"d", "e", "f", "\t", "f", "(">>,
      <<"c", "o", "u", "t">>,
      <<"n", "e", "w", " ">>,
      <<"v", "a", "r", " ">>,
      <<"#", "i", "n", "c", "l", "u", "d", "e", " ", "<", "a", ">">>,
      <<"p", "u", "b", "l", "i", "c", " ", "c", "l", "a", "s", "s", " ", "A">>,
      <<"f", "u", "n", "c", "t", "i", "o", "n", " ", "f", "(">> }

RECURSIVE Flatten(_)
Flatten(cs) == IF cs = <<>> THEN <<>> ELSE Head(cs) \o Flatten(Tail(cs))

Codes == {Flatten(cs) : cs \in UNION {[1..n -> Chunks] : n \in 0..MaxChunks}}

DetectInit ==
    /\ pc = [c \in Calls |-> "idle"]
    /\ lang = [c \in Calls |-> "none"]
    /\ class_name = [c \in Calls |-> NoClass]
    /\ src_file = [c \in Calls |-> NoPath]
    /\ run_file = [c \in Calls |-> NoPath]
    /\ bin_file = [c \in Calls |-> NoPath]
    /\ child = [c \in Calls |-> NoChild]
    /\ compile_result = [c \in Calls |-> NoResult]
    /\ run_result = [c \in Calls |-> NoResult]
    /\ result = [c \in Calls |-> NoOutcome]
    /\ fs = [p \in Paths |-> NoCall]
    /\ probed = [c \in Calls |-> "none"]
    /\ spawned = [c \in Calls |-> <<>>]
    /\ touched = [c \in Calls |-> {}]
    /\ timedOut = [c \in Calls |-> "none"]
    /\ code \in Codes
    /\ detected = "none"
    /\ NoRequest

\* detected_lang = converter.detect_language(source_code)
Detect ==
    /\ detected = "none"
    /\ detected' = detect_language(code)
    /\ UNCHANGED <<code, execVars, procVars>>

DetectNext == Detect

DetectSpec == DetectInit /\ [][DetectNext]_vars

(***************************************************************************)
(* process_code and call_llm.  The strings call_llm returns are sequences  *)
(* of characters; "?" stands for the text that follows a fixed beginning   *)
(* (status code and body, or the text of the exception).                   *)
(***************************************************************************)
\* f"API Error: {response.status_code} - {response.text}"
ApiErrorText == <<"A", "P", "I", " ", "E", "r", "r", "o", "r", ":", " ", "?">>

\* "Error: No response generated from API"
NoResponseText == <<"E", "r", "r", "o", "r", ":", " ", "N", "o", " ", "r", "e", "s", "p", "o", "n", "s", "e", " ", "g", "e", "n", "e", "r", "a", "t", "e", "d", " ", "f", "r", "o", "m", " ", "A", "P", "I">>

\* f"Request Error: {str(e)}"
RequestErrorText == <<"R", "e", "q", "u", "e", "s", "t", " ", "E", "r", "r", "o", "r", ":", " ", "?">>

\* f"Error calling LLM API: {str(e)}"
LlmErrorText == <<"E", "r", "r", "o", "r", " ", "c", "a", "l", "l", "i", "n", "g", " ", "L", "L", "M", " ", "A", "P", "I", ":", " ", "?">>

\* the ways call_llm ends: status 200 with choices ("ok"), status other than
\* 200, no choices in the response, requests.exceptions.RequestException,
\* any other exception
LlmFailures == {"api_error", "no_response", "request_error", "exception"}
LlmOutcomes == {"ok"} \cup LlmFailures

\* the cleaned content call_llm returns for a response with choices
LlmTranslations ==
    { <<>>,
      <<"c", "o", "u", "t">>,
      <<"p", "u", "b", "l", "i", "c", " ", "c", "l", "a", "s", "s", " ", "A">> }

\* what call_llm returns when it ends as o, t being the cleaned content
call_llm(o, t) ==
    CASE o = "ok" -> t
      [] o = "api_error" -> ApiErrorText
      [] o = "no_response" -> NoResponseText
      [] o = "request_error" -> RequestErrorText
      [] o = "exception" -> LlmErrorText

\* str.startswith
StartsWith(s, w) == At(s, 1, w)

ErrorPrefix == <<"E", "r", "r", "o", "r">>
ApiErrorPrefix == <<"A", "P", "I", " ", "E", "r", "r", "o", "r">>

\* converted_code.startswith("Error") or converted_code.startswith("API Error")
ConversionFailed(r) == StartsWith(r, ErrorPrefix) \/ StartsWith(r, ApiErrorPrefix)

\* compile_run and converted_code and not converted_code.startswith("Error")
ShouldExecute(flag, r) == flag /\ r # <<>> /\ ~StartsWith(r, ErrorPrefix)

\* the class run_java finds in the code it is given
ClassOf(l, r) == IF l = "Java" /\ MatchPublicClass(r) THEN 1 ELSE NoClass

\* the source_code values of the requests
ProcCodes ==
    { <<>>,
      <<" ">>,
      <<"x">>,
      <<"d", "e", "f", " ", "f", "(">>,
      <<"c", "o", "u", "t">>,
      <<"p", "u", "b", "l", "i", "c", " ", "c", "l", "a", "s", "s", " ", "A">>,
      <<"v", "a", "r", " ", "x">> }

ProcInit ==
    /\ pc = [c \in Calls |-> "idle"]
    /\ lang = [c \in Calls |-> "none"]
    /\ class_name = [c \in Calls |-> NoClass]
    /\ src_file = [c \in Calls |-> NoPath]
    /\ run_file = [c \in Calls |-> NoPath]
    /\ bin_file = [c \in Calls |-> NoPath]
    /\ child = [c \in Calls |-> NoChild]
    /\ compile_result = [c \in Calls |-> NoResult]
    /\ run_result = [c \in Calls |-> NoResult]
    /\ result = [c \in Calls |-> NoOutcome]
    /\ fs = [p \in Paths |-> NoCall]
    /\ probed = [c \in Calls |-> "none"]
    /\ spawned = [c \in Calls |-> <<>>]
    /\ touched = [c \in Calls |-> {}]
    /\ timedOut = [c \in Calls |-> "none"]
    /\ code \in ProcCodes
    /\ detected = "none"
    /\ request \in {[IdleRequest EXCEPT !.p_pc = "start", !.target_lang = l,
                                        !.compile_run = f] :
                       l \in Langs, f \in BOOLEAN}

\* process_code returns with conversion_info i and an empty converted_code
P_ReturnEarly(i) ==
    request' = [request EXCEPT !.p_pc = "returned", !.conversion_info = i,
                               !.converted_code = <<>>]

\* if not source_code.strip(): return ...; detect_language; if "Unknown": return
P_Detect ==
    /\ p_pc = "start"
    /\ IF Strip(code) = <<>>
         THEN P_ReturnEarly("please_provide") /\ UNCHANGED detected
         ELSE /\ detected' = detect_language(code)
              /\ IF detected' = "Unknown"
                   THEN P_ReturnEarly("could_not_detect")
                   ELSE request' = [request EXCEPT !.p_pc = "convert"]
    /\ UNCHANGED <<code, execVars>>

\* the conversion: the source itself for the same language, else convert_code,
\* which is call_llm, ending as o with cleaned content t
P_Convert(o, t) ==
    /\ p_pc = "convert"
    /\ IF detected = target_lang
         THEN /\ o = "ok" /\ t = <<>>
              /\ request' = [request EXCEPT !.p_pc = "dispatch",
                                            !.converted_code = code,
                                            !.conversion_info = "same_language"]
         ELSE /\ o = "ok" \/ t = <<>>
              /\ IF ConversionFailed(call_llm(o, t))
                   THEN request' = [request EXCEPT !.p_pc = "dispatch",
                                                   !.llm_kind = o,
                                                   !.conversion_info = "conversion_failed",
                                                   !.converted_code = <<>>]
                   ELSE request' = [request EXCEPT !.p_pc = "dispatch",
                                                   !.llm_kind = o,
                                                   !.conversion_info = "converted",
                                                   !.converted_code = call_llm(o, t)]
    /\ UNCHANGED <<code, detected, execVars>>

\* "Compile/Run if requested": the test that guards the executors
P_Dispatch ==
    /\ p_pc = "dispatch"
    /\ request' = [request EXCEPT !.p_pc =
                      IF ShouldExecute(compile_run, converted_code)
                        THEN "executing" ELSE "returned"]
    /\ UNCHANGED <<code, detected, execVars>>

\* the executor called by process_code is running
Executing == p_pc = "executing"

\* the executor of target_lang is called on converted_code
P_Execute ==
    /\ Executing
    /\ Execute(1, target_lang, ClassOf(target_lang, converted_code))

\* success, output = converter....(converted_code); execution_output = output;
\* return conversion_info, converted_code, execution_output
P_Return ==
    /\ Executing
    /\ pc[1] = "done"
    /\ request' = [request EXCEPT !.p_pc = "returned", !.execution_output = result[1]]
    /\ UNCHANGED <<code, detected, execVars>>

ProcNext ==
    \/ P_Detect
    \/ \E o \in LlmOutcomes, t \in LlmTranslations : P_Convert(o, t)
    \/ P_Dispatch
    \/ P_Execute
    \/ Executing /\ \E o \in ProbeOutcomes : Probe(1, o)
    \/ Executing /\ \E rc \in ReturnCodes : ProbeExit(1, rc)
    \/ Executing /\ CreateTemp(1)
    \/ Executing /\ CreateTempFails(1)
    \/ Executing /\ Rename(1)
    \/ Executing /\ \E o \in SpawnOutcomes : Compile(1, o)
    \/ Executing /\ \E rc \in ReturnCodes, e \in StderrVals : CompileExit(1, rc, e)
    \/ Executing /\ \E o \in SpawnOutcomes : Run(1, o)
    \/ Executing /\ \E rc \in ReturnCodes, e \in StderrVals : RunExit(1, rc, e)
    \/ Executing /\ Timeout(1)
    \/ Executing /\ UnlinkSrc(1)
    \/ Executing /\ UnlinkBin(1)
    \/ P_Return

ProcessSpec == ProcInit /\ [][ProcNext]_vars

(***************************************************************************)
(* Properties of the executors.                                            *)
(***************************************************************************)
Range(q) == {q[i] : i \in DOMAIN q}

Returned_(c) == pc[c] = "done"
InFlight(c) == pc[c] \notin {"idle", "done"}

\* C1: after an execute call has returned, on whatever exit path, no file that
\* the call created (source file, renamed source file, binary or class file)
\* is left in the temporary directory.
C1_NoArtifactLeft ==
    \A c \in Calls : Returned_(c) => \A p \in Paths : fs[p] # c

\* C2: a call creates no file and spawns no compile or run subprocess unless
\* its toolchain probe reported "available" earlier in the call; a call whose
\* probe reported "unavailable" returns the fixed instructional message and
\* has done no filesystem or process work.
C2_ProbeBeforeWork ==
    \A c \in Calls :
        /\ (touched[c] # {} \/ Range(spawned[c]) \cap {"compile", "run"} # {})
              => probed[c] = "available"
        /\ (Returned_(c) /\ probed[c] = "unavailable")
              => /\ result[c] = ToolchainMissing
                 /\ touched[c] = {}
                 /\ Range(spawned[c]) \cap {"compile", "run"} = {}

\* C3: when the run step completed within its timeout, the returned succeeded
\* flag is true if and only if the run step's exit code is zero.
C3_SucceededIffExitZero ==
    \A c \in Calls :
        (Returned_(c) /\ run_result[c].returncode # -1)
            => (result[c].succeeded <=> run_result[c].returncode = 0)

\* C4: in compile_cpp and run_java, once the compile step has exited with a
\* non-zero code the run subprocess is never spawned in that call, and the call
\* returns succeeded = false with a message carrying the compiler's stderr.
C4_CompileGate ==
    \A c \in Calls :
        (HasCompile(lang[c]) /\ compile_result[c].returncode \notin {-1, 0})
            => /\ "run" \notin Range(spawned[c])
               /\ Returned_(c) => /\ result[c].succeeded = FALSE
                                  /\ result[c].kind = "compile_failed"
                                  /\ result[c].stderr = compile_result[c].stderr

\* C4 witness: a compile_cpp call and a run_java call have both returned after
\* a compile step that exited non-zero with text on stderr.
C4_Witness ==
    \E c1, c2 \in Calls :
        /\ lang[c1] = "C++" /\ lang[c2] = "Java"
        /\ \A c \in {c1, c2} : /\ Returned_(c)
                               /\ compile_result[c] = [returncode |-> 1, stderr |-> "E"]

\* the paths a call in flight holds in its local variables and still has to
\* rename, compile, run or delete (java_file is dead once it has been renamed)
Using(c) ==
    ({run_file[c], bin_file[c]} \cup (IF pc[c] = "rename" THEN {src_file[c]} ELSE {}))
        \ {NoPath}

\* C5: the paths that two calls in flight at the same time write, rename to,
\* compile, run or delete are disjoint: no call works on a path that another
\* call in flight is working on.
C5_DisjointPaths ==
    \A c1, c2 \in Calls :
        (c1 # c2 /\ InFlight(c1) /\ InFlight(c2)) => Using(c1) \cap Using(c2) = {}

\* C6: a run_java call on code without a public class declaration returns a
\* failed outcome, having invoked no toolchain binary at all and created no
\* temporary file.
C6_NoToolchainWithoutClass ==
    \A c \in Calls :
        (lang[c] = "Java" /\ class_name[c] = NoClass)
            => /\ spawned[c] = <<>>
               /\ touched[c] = {}
               /\ Returned_(c) => ~result[c].succeeded

\* C6 as amended: a run_java call on code without a public class declaration
\* creates no temporary file and spawns no compile or run step; the only
\* subprocess it starts is the availability probe; it returns a failed outcome,
\* which is the missing-declaration message when the probe reported
\* "available" and the toolchain-missing message when it reported
\* "unavailable".
C6_NoCompileWithoutClass ==
    \A c \in Calls :
        (lang[c] = "Java" /\ class_name[c] = NoClass)
            => /\ spawned[c] \in {<<>>, <<"probe">>}
               /\ touched[c] = {}
               /\ \A p \in Paths : fs[p] # c
               /\ Returned_(c) =>
                     /\ ~result[c].succeeded
                     /\ probed[c] = "available" => result[c] = NoPublicClass
                     /\ probed[c] = "unavailable" => result[c] = ToolchainMissing

\* C6 witness: a run_java call on code without a public class declaration has
\* returned the missing-declaration message after its probe.
C6_Witness ==
    \E c \in Calls :
        /\ lang[c] = "Java" /\ class_name[c] = NoClass
        /\ Returned_(c) /\ result[c] = NoPublicClass
        /\ spawned[c] = <<"probe">>

\* C7: every subprocess a call is blocked on (probe, compile step, run step)
\* was started with a timeout, so the call cannot wait on it forever.
C7_EveryChildHasTimeout ==
    \A c \in Calls : child[c].kind # "none" => child[c].timeout > 0

\* C8: when the compile step or the run step exceeded its timeout, the call
\* has returned succeeded = false with the timed-out message; the step that
\* timed out was started once and is the last subprocess of the call.
C8_TimeoutTerminal ==
    \A c \in Calls :
        timedOut[c] # "none"
            => /\ Returned_(c)
               /\ result[c] = TimedOutOutcome
               /\ ~result[c].succeeded
               /\ child[c] = NoChild
               /\ spawned[c] # <<>>
               /\ spawned[c][Len(spawned[c])] = timedOut[c]
               /\ Cardinality({i \in DOMAIN spawned[c] : spawned[c][i] = timedOut[c]}) = 1
               /\ timedOut[c] = "compile" => "run" \notin Range(spawned[c])

\* C8 witness: one call has returned from a compile step that timed out and
\* another from a run step that timed out.
C8_Witness ==
    \E c1, c2 \in Calls :
        /\ timedOut[c1] = "compile" /\ Returned_(c1)
        /\ timedOut[c2] = "run" /\ Returned_(c2)


\* the initial parts of w
Prefixes(w) == {SubSeq(w, 1, n) : n \in 0..Len(w)}

\* C11: a single execute call spawns at most two child processes in total,
\* counting every subprocess the call starts.
C11_AtMostTwoChildren ==
    \A c \in Calls : Len(spawned[c]) <= 2

\* C11 as amended: a single execute call spawns at most three child processes
\* in total, each at most once and in this order: the toolchain probe
\* (compile_cpp, run_java, run_javascript), the compile step (compile_cpp,
\* run_java) and the run step; that is at most two not counting the probe.
C11_AtMostThreeChildren ==
    \A c \in Calls :
        spawned[c] \in
            CASE lang[c] \in {"C++", "Java"} -> Prefixes(<<"probe", "compile", "run">>)
              [] lang[c] = "JavaScript" -> Prefixes(<<"probe", "run">>)
              [] lang[c] = "Python" -> Prefixes(<<"run">>)
              [] OTHER -> {<<>>}

\* C11 witness: a compile_cpp call has returned after its probe, its compile
\* step and its run step, and a run_python call after its run step alone.
C11_Witness ==
    \E c1, c2 \in Calls :
        /\ lang[c1] = "C++" /\ Returned_(c1) /\ spawned[c1] = <<"probe", "compile", "run">>
        /\ lang[c2] = "Python" /\ Returned_(c2) /\ spawned[c2] = <<"run">>

\* C13: in every returned tuple the marker of the report text agrees with the
\* succeeded flag (the text starts with the success marker if and only if
\* succeeded is true), and the report's stderr block is present if and only if
\* the captured stderr is non-empty.
C13_MarkerAgreesWithFlag ==
    \A c \in Calls :
        Returned_(c) =>
            /\ result[c].marker = "ok" <=> result[c].succeeded
            /\ result[c].kind = "report" =>
                  (result[c].stderr_block <=> run_result[c].stderr # "")

(***************************************************************************)
(* Properties of detect_language.                                          *)
(***************************************************************************)
AllIndicators ==
    python_indicators \cup cpp_indicators \cup java_indicators \cup js_indicators

\* the code contains none of the signal substrings of any language
NoSignal(s) == \A w \in AllIndicators : ~Contains(s, w)

\* one of the structural checks of detect_language matches the stripped code
StructuralBonus(s) ==
    \/ MatchInclude(s)
    \/ MatchDef(s)
    \/ MatchIndent(s)
    \/ MatchPublicClass(s)
    \/ MatchFunction(s)
    \/ HasBraces(s)

\* C9: a code string that contains none of the signal substrings of any of the
\* four languages is classified as Unknown, whatever its indentation and
\* whether or not it contains braces.
C9_ZeroSignalUnknown ==
    (detected # "none" /\ NoSignal(code)) => detected = "Unknown"

\* C9 as amended: a code string that contains none of the signal substrings
\* and, once stripped, matches none of the structural checks (no line that
\* starts with four or more whitespace characters, not both braces, no
\* def / public class / function pattern) is classified as Unknown.
C9_ZeroSignalNoBonusUnknown ==
    (detected # "none" /\ NoSignal(code) /\ ~StructuralBonus(Strip(code)))
        => detected = "Unknown"

\* C9 witness: a code string of several lines with an opening brace, without
\* any signal substring or structural match, has been classified as Unknown.
C9_Witness ==
    /\ detected = "Unknown"
    /\ NoSignal(code)
    /\ ~StructuralBonus(Strip(code))
    /\ \E i \in 2..(Len(code) - 1) : code[i] = "\n"
    /\ \E i \in 1..Len(code) : code[i] = "{"

\* the position of a language in the order Python, C++, Java, JavaScript
KeyIndex(l) == CHOOSE i \in 1..Len(ScoreKeys) : ScoreKeys[i] = l

\* C10: detect_language returns a language whose total score is maximal among
\* the four; it returns Unknown exactly when every score is zero; among
\* several languages with the same positive maximal score it returns the
\* first in the order Python, C++, Java, JavaScript.
C10_MaximalScoreFirstWins ==
    detected # "none" =>
        LET sc == Scores(Strip(code)) IN
        /\ detected = "Unknown" <=> \A l \in Langs : sc[l] = 0
        /\ detected # "Unknown" =>
              /\ detected \in Langs
              /\ \A l \in Langs : sc[l] <= sc[detected]
              /\ \A l \in Langs :
                    sc[l] = sc[detected] => KeyIndex(detected) <= KeyIndex(l)

\* C10 witness: Java and JavaScript share the maximal score, which is
\* positive, the other two languages score less, and Java was returned.
C10_Witness ==
    LET sc == Scores(Strip(code)) IN
    /\ detected = "Java"
    /\ sc["Java"] > 0
    /\ sc["JavaScript"] = sc["Java"]
    /\ sc["Python"] < sc["Java"]
    /\ sc["C++"] < sc["Java"]


(***************************************************************************)
(* Properties of process_code.                                             *)
(***************************************************************************)
\* an executor has been called in this request
ExecutorInvoked == p_pc = "executing" \/ lang[1] # "none"

\* C12: whenever call_llm returned a failure result (non-200 API error,
\* request exception, other exception, no response), the transformed code
\* process_code returns is empty and no executor is invoked, whatever the
\* compile/run flag; an executor is invoked only on the source code itself
\* (same language) or on a successful translation.
C12_FailedTranslationNotExecuted ==
    /\ llm_kind \in LlmFailures =>
          /\ ~ExecutorInvoked
          /\ p_pc \in {"dispatch", "returned"} => converted_code = <<>>
    /\ ExecutorInvoked =>
          \/ llm_kind = "ok"
          \/ llm_kind = "none" /\ detected = target_lang /\ converted_code = code

====
